---- MODULE Spec2Model ----
(***************************************************************************)
(* The Expression Composer of the scientific calculator: the React         *)
(* component Calculator, in its two variants                               *)
(*   - src/calculator/my-app/src/components/Calculator.js  ("plain")       *)
(*   - src/unnamed/part_002, lines 214-455                 ("commented")   *)
(* A JavaScript string is a sequence of one-character strings, so that     *)
(* length, slice, concatenation and replace are computed, not assumed.     *)
(***************************************************************************)
EXTENDS Integers, Sequences, FiniteSets, TLC

VARIABLES
    variant,     \* which of the two component files is running (fixed)
    keys,        \* the inputs of this run (fixed): the buttons pressed, the responses
    display,     \* useState('0')
    expression,  \* useState('')
    isResult,    \* useState(false)
    pending,     \* fetch() calls not yet settled: the expression each one sent
    busy,        \* input events handled since a fetch has been outstanding
    last,        \* the event handled last; over holds the display a settlement
                 \* overwrote when the event before it was a settlement too
    step,        \* how much of Scenario1 the latest events have played
    twin         \* the component of the other variant when the two run side by
                 \* side on the same events: its state and the requests it sent

vars ==
    <<variant, keys, display, expression, isResult, pending, busy, last, step, twin>>

----------------------------------------------------------------------------
(* Bounds of the model *)

\* A key that appends is pressed only while display is shorter than this.
MaxLen == 3
\* fetch() calls outstanding at once.
MaxPending == 2
\* Input events handled while a fetch is outstanding.
MaxBusy == 1

----------------------------------------------------------------------------
(* Strings of the program *)

Plain == "Calculator.js"
Commented == "part_002"
Variants == {Plain, Commented}

Zero == <<"0">>
Empty == <<>>
ErrorToken == <<"E", "r", "r", "o", "r">>
ConnectionErrorToken ==
    <<"C", "o", "n", "n", "e", "c", "t", "i", "o", "n", " ", "E", "r", "r", "o", "r">>

\* The argument the pi button passes to handleOperator.
PiPlain == <<"*", "3", ".", "1", "4", "1", "5", "9">>
PiCommented == <<"*", "p", "i">>
PiButton(v) == IF v = Plain THEN PiPlain ELSE PiCommented

\* The argument of the "." button and of the x^y button (both call handleOperator).
DotKey == <<".">>
PowerKey == <<"*", "*">>
Sin == <<"s", "i", "n">>

StartsWith(s, p) == Len(p) <= Len(s) /\ SubSeq(s, 1, Len(p)) = p
EndsWith(s, p) == Len(p) <= Len(s) /\ SubSeq(s, Len(s) - Len(p) + 1, Len(s)) = p
Contains(s, p) == \E i \in 1..(Len(s) - Len(p) + 1) : SubSeq(s, i, i + Len(p) - 1) = p

\* String.prototype.slice(0, -1)
SliceLast(s) == IF Len(s) = 0 THEN Empty ELSE SubSeq(s, 1, Len(s) - 1)

\* Number.prototype.toString() of an integer
DigitChar(d) == <<"0", "1", "2", "3", "4", "5", "6", "7", "8", "9">>[d + 1]

RECURSIVE NatToString(_)
NatToString(n) ==
    IF n < 10 THEN <<DigitChar(n)>>
    ELSE NatToString(n \div 10) \o <<DigitChar(n % 10)>>

NumberToString(n) == IF n < 0 THEN <<"-">> \o NatToString(-n) ELSE NatToString(n)

\* .replace(/×/g, '*').replace(/÷/g, '/').replace(/π/g, 'pi')
RECURSIVE ReplaceGlyphs(_)
ReplaceGlyphs(s) ==
    IF s = Empty THEN Empty
    ELSE (CASE Head(s) = "×" -> <<"*">>
            [] Head(s) = "÷" -> <<"/">>
            [] Head(s) = "π" -> <<"p", "i">>
            [] OTHER -> <<Head(s)>>) \o ReplaceGlyphs(Tail(s))

----------------------------------------------------------------------------
(* The handlers, as functions of the state they are called in *)

State(d, e, r) == [display |-> d, expression |-> e, isResult |-> r]

Fresh == State(Zero, Empty, FALSE)

\* Mutant: setIsResult(false) is forgotten.
handleNumberKeepsFlag(s, num) ==
    IF s.display = Zero \/ s.isResult
    THEN State(num, num, s.isResult)
    ELSE State(s.display \o num, s.expression \o num, s.isResult)

\* Mutant: a shown result is not replaced by the digit.
handleNumberAppendsToResult(s, num) ==
    IF s.display = Zero
    THEN State(num, num, FALSE)
    ELSE State(s.display \o num, s.expression \o num, s.isResult)

handleNumber(s, num) ==
    IF s.display = Zero \/ s.isResult
    THEN State(num, num, FALSE)
    ELSE State(s.display \o num, s.expression \o num, s.isResult)

handleOperatorPlain(s, op) ==
    IF s.isResult
    THEN State(s.display \o op, s.display \o op, FALSE)
    ELSE State(s.display \o op, s.expression \o op, s.isResult)

\* Mutant: after a result the operator is appended to the old expression.
handleOperatorCommentedStale(s, op) ==
    IF s.isResult
    THEN State(s.display \o op, s.expression \o op, FALSE)
    ELSE IF s.display = Zero
         THEN State(op, op, s.isResult)
         ELSE State(s.display \o op, s.expression \o op, s.isResult)

handleOperatorCommented(s, op) ==
    IF s.isResult
    THEN State(s.display \o op, s.display \o op, FALSE)
    ELSE IF s.display = Zero
         THEN State(op, op, s.isResult)
         ELSE State(s.display \o op, s.expression \o op, s.isResult)

handleOperator(v, s, op) ==
    IF v = Plain THEN handleOperatorPlain(s, op) ELSE handleOperatorCommented(s, op)

\* `${func}(${display})`
Wrap(func, d) == func \o <<"(">> \o d \o <<")">>

\* Mutant: the function call is closed at once.
handleFunctionPlainCloses(s, func) ==
    IF s.isResult
    THEN State(Wrap(func, s.display), Wrap(func, s.display), FALSE)
    ELSE State(s.display \o func \o <<"(", ")">>, s.expression \o func \o <<"(", ")">>,
               s.isResult)

handleFunctionPlain(s, func) ==
    IF s.isResult
    THEN State(Wrap(func, s.display), Wrap(func, s.display), FALSE)
    ELSE State(s.display \o func \o <<"(">>, s.expression \o func \o <<"(">>, s.isResult)

\* Mutant: the function wraps the old expression, not the shown result.
handleFunctionCommentedWrapsExpression(s, func) ==
    IF s.isResult
    THEN State(Wrap(func, s.display), Wrap(func, s.expression), FALSE)
    ELSE IF s.display = Zero
         THEN State(func \o <<"(">>, func \o <<"(">>, s.isResult)
         ELSE State(s.display \o func \o <<"(">>, s.expression \o func \o <<"(">>,
                    s.isResult)

handleFunctionCommented(s, func) ==
    IF s.isResult
    THEN State(Wrap(func, s.display), Wrap(func, s.display), FALSE)
    ELSE IF s.display = Zero
         THEN State(func \o <<"(">>, func \o <<"(">>, s.isResult)
         ELSE State(s.display \o func \o <<"(">>, s.expression \o func \o <<"(">>,
                    s.isResult)

handleFunction(v, s, func) ==
    IF v = Plain THEN handleFunctionPlain(s, func) ELSE handleFunctionCommented(s, func)

\* Mutant: setIsResult(false) is forgotten.
handleClearKeepsResult(s) == State(Zero, Empty, s.isResult)

handleClear(s) == State(Zero, Empty, FALSE)

\* Mutant: the else branch slices expression instead of resetting it.
handleDeleteSlicesAlways(s) ==
    IF Len(s.display) > 1
    THEN State(SliceLast(s.display), SliceLast(s.expression), s.isResult)
    ELSE State(Zero, SliceLast(s.expression), s.isResult)

\* Mutant: only the display is sliced.
handleDeleteDisplayOnly(s) ==
    IF Len(s.display) > 1
    THEN State(SliceLast(s.display), s.expression, s.isResult)
    ELSE State(Zero, Empty, s.isResult)

\* Mutant: DEL leaves the result state, as the typing handlers do.
handleDeleteClearsFlag(s) ==
    IF Len(s.display) > 1
    THEN State(SliceLast(s.display), SliceLast(s.expression), FALSE)
    ELSE State(Zero, Empty, FALSE)

handleDelete(s) ==
    IF Len(s.display) > 1
    THEN State(SliceLast(s.display), SliceLast(s.expression), s.isResult)
    ELSE State(Zero, Empty, s.isResult)

\* expression || display
ExpressionOrDisplay(s) == IF s.expression # Empty THEN s.expression ELSE s.display

\* Mutant: the request is built from the display alone.
calcExpressionOfDisplay(v, s) ==
    IF v = Plain THEN s.display ELSE ReplaceGlyphs(s.display)

\* The string handleCalculate puts in the request body.
calcExpression(v, s) ==
    IF v = Plain THEN ExpressionOrDisplay(s) ELSE ReplaceGlyphs(ExpressionOrDisplay(s))

(* What fetch() and response.json() can give handleCalculate:               *)
(*   reached: fetch resolved with a response (else it rejected);           *)
(*   ok: response.ok; parses: response.json() resolved (else it rejected); *)
(*   isNumber, num, text: data.result.                                     *)
Response(reached, ok, parses, isNumber, num, text) ==
    [reached |-> reached, ok |-> ok, parses |-> parses,
     isNumber |-> isNumber, num |-> num, text |-> text]

Unreachable == Response(FALSE, FALSE, FALSE, FALSE, 0, Empty)
Unparsable(ok) == Response(TRUE, ok, FALSE, FALSE, 0, Empty)
Rejected == Response(TRUE, FALSE, TRUE, FALSE, 0, Empty)
NumberResult(n) == Response(TRUE, TRUE, TRUE, TRUE, n, Empty)
TextResult(t) == Response(TRUE, TRUE, TRUE, FALSE, 0, t)

\* Mutant: the normalized copy is stored with setExpression.
handleCalculateFetchWritesBack(v, s) ==
    State(s.display, calcExpression(v, s), s.isResult)

\* handleCalculate up to its first await: the request is built from a copy, and
\* no setter is called.
handleCalculateFetch(v, s) == s

\* Mutant: the catch block shows the generic token.
SettledDisplayOneToken(r) ==
    IF ~r.reached THEN ErrorToken
    ELSE IF ~r.parses THEN ErrorToken
    ELSE IF r.ok
         THEN IF r.isNumber THEN NumberToString(r.num) ELSE r.text
         ELSE ErrorToken

\* Mutant: a text payload is shown after the glyph replacement of the request.
SettledDisplayNormalizes(r) ==
    IF ~r.reached THEN ConnectionErrorToken
    ELSE IF ~r.parses THEN ConnectionErrorToken
    ELSE IF r.ok
         THEN IF r.isNumber THEN NumberToString(r.num) ELSE ReplaceGlyphs(r.text)
         ELSE ErrorToken

\* The display handleCalculate sets once its fetch has settled with r.
SettledDisplay(r) ==
    IF ~r.reached THEN ConnectionErrorToken            \* fetch rejects: catch
    ELSE IF ~r.parses THEN ConnectionErrorToken        \* response.json() rejects: catch
    ELSE IF r.ok
         THEN IF r.isNumber THEN NumberToString(r.num) ELSE r.text
         ELSE ErrorToken

\* Mutant: the settlement also stores the outcome with setExpression.
handleCalculateSettledMirrors(s, r) == State(SettledDisplay(r), SettledDisplay(r), TRUE)

\* Mutant: setIsResult(true) is forgotten.
handleCalculateSettledNoFlag(s, r) == State(SettledDisplay(r), s.expression, s.isResult)

\* The continuation of handleCalculate after its awaits: setDisplay, setIsResult(true).
handleCalculateSettled(s, r) == State(SettledDisplay(r), s.expression, TRUE)

----------------------------------------------------------------------------
(* Inputs *)

\* Numeric results and non-numeric result payloads the Evaluator returns.
Results == {0, 14}
Payloads == {Empty, <<"×", "÷", "π">>}

\* The inputs of a run: the buttons pressed ("pi" stands for the variant's pi
\* button), the length at which the run stops appending, the responses, and
\* whether the user waits for a response before touching the next button
\* (serial) or goes on pressing while requests are outstanding.
Keys(digits, ops, funcs, pi, cap, responses, serial) ==
    [digits |-> digits, ops |-> ops, funcs |-> funcs, pi |-> pi, cap |-> cap,
     responses |-> responses, serial |-> serial]

\* Each run draws one of these, so that the runs add up instead of multiplying.
GeneralKeys ==
    Keys({<<"5">>}, {<<"+">>}, {Sin}, TRUE, MaxLen,
         {NumberResult(n) : n \in Results} \cup {Rejected}, TRUE)
TextKeys ==
    Keys({<<"5">>}, {<<"+">>}, {}, FALSE, MaxLen, {TextResult(t) : t \in Payloads}, TRUE)
FailureKeys ==
    Keys({<<"5">>}, {<<"+">>}, {}, FALSE, MaxLen,
         {Unreachable, Unparsable(TRUE), Unparsable(FALSE), Rejected}, TRUE)
ConcurrentKeys ==
    Keys({<<"5">>}, {<<"+">>}, {}, FALSE, MaxLen,
         {NumberResult(n) : n \in Results}, FALSE)
KeypadKeys ==
    Keys({<<"0">>}, {DotKey, PowerKey}, {}, FALSE, MaxLen, {NumberResult(14)}, TRUE)
Universes == {GeneralKeys, TextKeys, FailureKeys, ConcurrentKeys, KeypadKeys}

Ops(v) == keys.ops \cup (IF keys.pi THEN {PiButton(v)} ELSE {})

\* Scenario 1 of the specification, as events.
Event(ev, arg) == [ev |-> ev, arg |-> arg]

Scenario1Text == <<"2", "+", "3", "*", "4">>

Scenario1 ==
    << Event("number", <<"2">>), Event("operator", <<"+">>), Event("number", <<"3">>),
       Event("operator", <<"*">>), Event("number", <<"4">>), Event("calculate", Empty),
       Event("settle", NumberResult(14)) >>

ScenarioKeys ==
    Keys({<<"2">>, <<"3">>, <<"4">>}, {<<"+">>, <<"*">>}, {Sin}, FALSE, Len(Scenario1Text),
         {NumberResult(14), Rejected}, TRUE)

----------------------------------------------------------------------------
(* The state machine *)

Now == State(display, expression, isResult)

\* A key may be pressed: the model stops appending at keys.cap characters.
CanEdit == pending = <<>> \/ (~keys.serial /\ busy < MaxBusy)
CanType == CanEdit /\ (isResult \/ Len(display) < keys.cap)
CanSubmit == pending = <<>> \/ (~keys.serial /\ Len(pending) < MaxPending)

NextStep(e, pre, pend) ==
    IF step > 0 /\ step < Len(Scenario1) /\ e = Scenario1[step + 1] THEN step + 1
    ELSE IF e = Scenario1[1] /\ pre = Fresh /\ pend = <<>> THEN 1
    ELSE 0

\* An input event e takes the state to s.
Apply(e, s, sent) ==
    /\ display' = s.display
    /\ expression' = s.expression
    /\ isResult' = s.isResult
    /\ last' = [ev |-> e.ev, arg |-> e.arg, wasResult |-> isResult, sent |-> sent,
                over |-> IF e.ev = "settle" /\ last.ev = "settle"
                         THEN <<display>> ELSE <<>>]
    /\ step' = NextStep(e, Now, pending)
    /\ UNCHANGED <<variant, keys>>

\* Mutant: an outstanding request reads the state as the handlers leave it.
InputRewritesPending(e, s) ==
    /\ Apply(e, s, Empty)
    /\ busy' = IF pending = <<>> THEN 0 ELSE busy + 1
    /\ pending' = [i \in DOMAIN pending |-> ExpressionOrDisplay(s)]
    /\ UNCHANGED twin

Input(e, s) ==
    /\ Apply(e, s, Empty)
    /\ busy' = IF pending = <<>> THEN 0 ELSE busy + 1
    /\ UNCHANGED <<pending, twin>>

Number ==
    \E num \in keys.digits :
        /\ CanType
        /\ Input(Event("number", num), handleNumber(Now, num))

Operator ==
    \E op \in Ops(variant) :
        /\ CanType
        /\ Input(Event("operator", op), handleOperator(variant, Now, op))

Function ==
    \E func \in keys.funcs :
        /\ CanType
        /\ Input(Event("function", func), handleFunction(variant, Now, func))

\* Mutant: AC also abandons the outstanding requests.
ClearCancels ==
    /\ CanEdit
    /\ Apply(Event("clear", Empty), handleClear(Now), Empty)
    /\ busy' = 0
    /\ pending' = <<>>
    /\ UNCHANGED twin

Clear ==
    /\ CanEdit
    /\ Input(Event("clear", Empty), handleClear(Now))

Delete ==
    /\ CanEdit
    /\ Input(Event("delete", Empty), handleDelete(Now))

\* handleCalculate up to its first await: the request leaves, no state is set.
Calculate ==
    /\ CanSubmit
    /\ Apply(Event("calculate", Empty), handleCalculateFetch(variant, Now),
             calcExpression(variant, Now))
    /\ pending' = Append(pending, calcExpression(variant, Now))
    /\ UNCHANGED <<busy, twin>>

Remove(q, i) == SubSeq(q, 1, i - 1) \o SubSeq(q, i + 1, Len(q))

\* Mutant: a request that got no response is sent again by the catch block.
SettleRetries ==
    \E i \in 1..Len(pending), r \in keys.responses :
        /\ Apply(Event("settle", r), handleCalculateSettled(Now, r), pending[i])
        /\ pending' = IF r.reached THEN Remove(pending, i)
                      ELSE Append(Remove(pending, i), pending[i])
        /\ busy' = IF Len(pending') = 0 THEN 0 ELSE busy
        /\ UNCHANGED twin

\* Mutant: a response that arrives right after another one is dropped.
SettleFirstWins ==
    \E i \in 1..Len(pending), r \in keys.responses :
        /\ Apply(Event("settle", r),
                 IF last.ev = "settle" THEN Now ELSE handleCalculateSettled(Now, r),
                 pending[i])
        /\ pending' = Remove(pending, i)
        /\ busy' = IF Len(pending) = 1 THEN 0 ELSE busy
        /\ UNCHANGED twin

\* A fetch settles, in any order, and handleCalculate runs to its end.
Settle ==
    \E i \in 1..Len(pending), r \in keys.responses :
        /\ Apply(Event("settle", r), handleCalculateSettled(Now, r), pending[i])
        /\ pending' = Remove(pending, i)
        /\ busy' = IF Len(pending) = 1 THEN 0 ELSE busy
        /\ UNCHANGED twin

Next == Number \/ Operator \/ Function \/ Clear \/ Delete \/ Calculate \/ Settle

NoEvent ==
    [ev |-> "mount", arg |-> Empty, wasResult |-> FALSE, sent |-> Empty, over |-> <<>>]

\* The second component: its three state hooks and its outstanding requests.
Twin(s, q) == [state |-> s, pending |-> q]

InitWith(universes) ==
    /\ variant \in Variants
    /\ keys \in universes
    /\ display = Zero
    /\ expression = Empty
    /\ isResult = FALSE
    /\ pending = <<>>
    /\ busy = 0
    /\ last = NoEvent
    /\ step = 0
    /\ twin = Twin(Fresh, <<>>)

Init == InitWith(Universes)
InitScenario == InitWith({ScenarioKeys})

Spec == Init /\ [][Next]_vars
SpecScenario == InitScenario /\ [][Next]_vars

\* Every fetch settles: its promise resolves or rejects, so a continuation of
\* handleCalculate that is waiting does run.
FairKeys == Keys({<<"5">>}, {<<"+">>}, {}, FALSE, MaxLen, {NumberResult(14)}, FALSE)
InitFair == InitWith({GeneralKeys, FailureKeys, FairKeys})
SpecFair == InitFair /\ [][Next]_vars /\ WF_vars(Settle)

----------------------------------------------------------------------------
(* The two components side by side: every event goes to both, and a        *)
(* request of one and the matching request of the other get the same       *)
(* response.  No pi button, no display glyph in a payload, and no operator *)
(* on the initial "0".                                                     *)

Other(v) == IF v = Plain THEN Commented ELSE Plain

TwinKeys ==
    Keys({<<"5">>}, {<<"+">>}, {Sin}, FALSE, MaxLen, {NumberResult(14), Rejected}, TRUE)

OnZero == ~isResult /\ display = Zero

TwinInput(e, s, t) ==
    /\ Apply(e, s, Empty)
    /\ busy' = IF pending = <<>> THEN 0 ELSE busy + 1
    /\ twin' = Twin(t, twin.pending)
    /\ UNCHANGED pending

TwinNumber ==
    \E num \in keys.digits :
        /\ CanType
        /\ TwinInput(Event("number", num), handleNumber(Now, num),
                     handleNumber(twin.state, num))

TwinOperator ==
    \E op \in keys.ops :
        /\ CanType
        /\ ~OnZero
        /\ TwinInput(Event("operator", op), handleOperator(variant, Now, op),
                     handleOperator(Other(variant), twin.state, op))

TwinFunction ==
    \E func \in keys.funcs :
        /\ CanType
        /\ TwinInput(Event("function", func), handleFunction(variant, Now, func),
                     handleFunction(Other(variant), twin.state, func))

TwinClear ==
    /\ CanEdit
    /\ TwinInput(Event("clear", Empty), handleClear(Now), handleClear(twin.state))

TwinDelete ==
    /\ CanEdit
    /\ TwinInput(Event("delete", Empty), handleDelete(Now), handleDelete(twin.state))

TwinCalculate ==
    /\ CanSubmit
    /\ Apply(Event("calculate", Empty), handleCalculateFetch(variant, Now),
             calcExpression(variant, Now))
    /\ pending' = Append(pending, calcExpression(variant, Now))
    /\ twin' = Twin(handleCalculateFetch(Other(variant), twin.state),
                    Append(twin.pending, calcExpression(Other(variant), twin.state)))
    /\ UNCHANGED busy

TwinSettle ==
    \E i \in 1..Len(pending), r \in keys.responses :
        /\ Apply(Event("settle", r), handleCalculateSettled(Now, r), pending[i])
        /\ pending' = Remove(pending, i)
        /\ busy' = IF Len(pending) = 1 THEN 0 ELSE busy
        /\ twin' = Twin(handleCalculateSettled(twin.state, r), Remove(twin.pending, i))

NextTwin ==
    \/ TwinNumber \/ TwinOperator \/ TwinFunction \/ TwinClear \/ TwinDelete
    \/ TwinCalculate \/ TwinSettle

InitTwin == InitWith({TwinKeys})

SpecTwin == InitTwin /\ [][NextTwin]_vars

----------------------------------------------------------------------------
(* Properties.  In an action formula the unprimed variables are the state  *)
(* the handler was called in, the primed ones the state it left, and       *)
(* last' names the handler.                                                *)

Typed == {"number", "operator", "function"}
Fourteen == <<"1", "4">>
PiLiteral == <<"3", ".", "1", "4", "1", "5", "9">>
PiSymbol == <<"p", "i">>

\* C1: in every reachable state display is a string of length at least 1.
C1_DisplayNonEmpty == Len(display) >= 1

\* C2 (as claimed): whenever isResult is true, expression equals display.
C2_ExpressionMirrorsResult == isResult => expression = display

\* C2 (amended): a settlement sets isResult and sets display to the outcome (the
\* stringified number, the payload text or an error token) and leaves expression
\* as it was, so expression equals the new display only if it already read so.
C2_SettleLeavesExpression ==
    [][last'.ev = "settle" =>
          /\ isResult'
          /\ expression' = expression
          /\ display' \in {ErrorToken, ConnectionErrorToken, last'.arg.text,
                           NumberToString(last'.arg.num)}
          /\ (last'.arg.reached /\ last'.arg.parses /\ last'.arg.ok /\ last'.arg.isNumber
                => display' = NumberToString(last'.arg.num))]_vars

\* C2 witness: a numeric result is on display above the expression that produced it.
C2_Witness ==
    /\ last.ev = "settle" /\ last.arg = NumberResult(14)
    /\ isResult /\ display = Fourteen /\ expression = <<"5", "+", "5">>

\* C3 (as claimed): with isResult true, the expression after an operator or a
\* function event begins with the prior display, after a digit it is the digit
\* alone, and isResult becomes false.
C3_ExpressionBeginsWithDisplay ==
    [][(isResult /\ last'.ev \in Typed) =>
          /\ ~isResult'
          /\ (last'.ev \in {"operator", "function"} => StartsWith(expression', display))
          /\ (last'.ev = "number" => expression' = last'.arg)]_vars

\* C3 (amended): with isResult true, the expression after an operator event
\* begins with the prior display, after a function event it is the prior display
\* wrapped in the call, name(display), after a digit it is the digit alone, and
\* isResult becomes false.
C3_ResultSeedsNext ==
    [][(isResult /\ last'.ev \in Typed) =>
          /\ ~isResult'
          /\ (last'.ev = "operator" =>
                StartsWith(expression', display) /\ expression' = display \o last'.arg)
          /\ (last'.ev = "function" => expression' = Wrap(last'.arg, display))
          /\ (last'.ev = "number" => expression' = last'.arg)]_vars

\* C3 witness: an operator was pressed on the transport error token.
C3_Witness ==
    /\ last.ev = "operator" /\ last.wasResult /\ ~isResult
    /\ expression = ConnectionErrorToken \o <<"+">>

\* C4: clear() yields exactly {display "0", expression "", isResult false}, and a
\* second clear() changes nothing.
C4_ClearResets == last.ev = "clear" => (Now = Fresh /\ handleClear(Now) = Now)

\* C4 witness: clear() was pressed while a result was shown.
C4_Witness == last.ev = "clear" /\ last.wasResult /\ Now = Fresh

\* C5: pressing submit sets no state (the glyph-normalized copy goes out with the
\* request only), and the settlement does not write expression either.
C5_NormalizationPurity ==
    [][/\ last'.ev = "calculate" => UNCHANGED <<display, expression, isResult>>
       /\ last'.ev = "settle" => expression' = expression]_vars

\* C5 witness: the request carried a normalized copy that differs from expression.
C5_Witness ==
    /\ last.ev = "calculate"
    /\ Contains(expression, <<"π">>)
    /\ last.sent = ReplaceGlyphs(expression) /\ last.sent # expression

\* C6: deleteLast() on a display of exactly one character yields display "0" and
\* expression "", whatever the character, expression and isResult were.
C6_DeleteSingleChar ==
    [][(last'.ev = "delete" /\ Len(display) = 1) =>
          (display' = Zero /\ expression' = Empty)]_vars

\* C6 witness: the last character of a shown result was deleted.
C6_Witness ==
    /\ last.ev = "delete" /\ last.wasResult
    /\ display = Zero /\ expression = Empty /\ isResult

\* C7: a submit whose request never gets a response settles with display
\* "Connection Error" and isResult true.
C7_TransportFailure ==
    (last.ev = "settle" /\ ~last.arg.reached) =>
        (display = ConnectionErrorToken /\ isResult)

\* C7 witness: a request settled without a response.
C7_Witness == last.ev = "settle" /\ last.arg = Unreachable /\ isResult

\* C8: a response with a non-success status settles with display "Error" and
\* isResult true, also when its body cannot be parsed.
C8_RejectedIsGenericError ==
    (last.ev = "settle" /\ last.arg.reached /\ ~last.arg.ok) =>
        (display = ErrorToken /\ isResult)

\* C9: the pi button appends the symbolic token pi to expression, never a decimal
\* literal.
C9_PiIsSymbolic ==
    (last.ev = "operator" /\ last.arg = PiButton(variant)) =>
        (EndsWith(expression, PiSymbol) /\ ~Contains(expression, PiLiteral))

\* C10: Scenario 1 hands the Evaluator "2+3*4", and the answer 14 leaves display
\* "14" and isResult true.
C10_Scenario1 ==
    /\ step = Len(Scenario1) - 1 =>
          (last.ev = "calculate" /\ last.sent = Scenario1Text /\ pending = <<Scenario1Text>>)
    /\ step = Len(Scenario1) => (display = Fourteen /\ isResult)

\* C10 witness: Scenario 1 was played to its end.
C10_Witness == step = Len(Scenario1) /\ display = Fourteen /\ isResult

\* C11: function(name) with isResult true sets display and expression to
\* name(prior display) and isResult to false, whatever expression was.
C11_FunctionWrapsResult ==
    [][(isResult /\ last'.ev = "function") =>
          /\ display' = last'.arg \o <<"(">> \o display \o <<")">>
          /\ expression' = display'
          /\ ~isResult']_vars

\* C11 witness: sin was pressed on the result 14 of another expression.
C11_Witness ==
    /\ last.ev = "function" /\ last.wasResult /\ ~isResult
    /\ expression = <<"s", "i", "n", "(", "1", "4", ")">> /\ display = expression

\* C12 (as claimed): a digit press, and a press of ".", replaces display and
\* expression by the key and clears isResult if display is "0" or isResult is
\* true, and appends the key to both otherwise.  Stated of the commented variant,
\* whose handleOperator replaces a display "0", so that "." differs from a digit
\* on a result only.
C12_DigitOrDotReplaces ==
    [][(variant = Commented
        /\ (last'.ev = "number" \/ (last'.ev = "operator" /\ last'.arg = DotKey))) =>
          IF display = Zero \/ isResult
          THEN display' = last'.arg /\ expression' = last'.arg /\ ~isResult'
          ELSE display' = display \o last'.arg /\ expression' = expression \o last'.arg
      ]_vars

\* C12 (amended): the digits 0..9 do so; "." is wired to handleOperator: on a
\* result it is appended to the prior display (display and expression become
\* display + ".", isResult false); with isResult false and display other than "0"
\* it is appended to both; on the display "0" the commented variant replaces both
\* by "." and Calculator.js appends it (display "0.", expression + ".").
C12_DigitReplacesDotAppends ==
    [][/\ last'.ev = "number" =>
            IF display = Zero \/ isResult
            THEN display' = last'.arg /\ expression' = last'.arg /\ ~isResult'
            ELSE /\ display' = display \o last'.arg
                 /\ expression' = expression \o last'.arg
                 /\ isResult' = isResult
       /\ (last'.ev = "operator" /\ last'.arg = DotKey) =>
            IF isResult
            THEN display' = display \o DotKey /\ expression' = display' /\ ~isResult'
            ELSE IF display = Zero /\ variant = Commented
                 THEN display' = DotKey /\ expression' = DotKey /\ ~isResult'
                 ELSE /\ display' = display \o DotKey
                      /\ expression' = expression \o DotKey
                      /\ ~isResult'
      ]_vars

\* C12 witness: "." was pressed on the result 14 and was appended to it.
C12_Witness ==
    /\ last.ev = "operator" /\ last.arg = DotKey /\ last.wasResult
    /\ display = <<"1", "4", ".">> /\ expression = display /\ ~isResult

\* C13: operator(op) with isResult false replaces display and expression by op
\* alone if display is "0", and appends op to both otherwise.
C13_OperatorReplacesZero ==
    [][(last'.ev = "operator" /\ ~isResult) =>
          IF display = Zero
          THEN display' = last'.arg /\ expression' = last'.arg
          ELSE display' = display \o last'.arg /\ expression' = expression \o last'.arg
      ]_vars

\* C14: the string a submit hands to the Evaluator is expression if it is not
\* empty and display otherwise, with every × replaced by *, ÷ by / and π by pi.
C14_SentIsNormalized ==
    [][last'.ev = "calculate" =>
          /\ last'.sent = ReplaceGlyphs(IF expression # Empty THEN expression ELSE display)
          /\ pending' = Append(pending, last'.sent)]_vars

\* C15: with isResult false, expression equals display, or the state is the
\* empty one, display "0" and expression "".
C15_Lockstep ==
    ~isResult => (expression = display \/ (display = Zero /\ expression = Empty))

\* C16: isResult turns from false to true only when a submit's outcome is
\* applied, and every digit, operator or function event on a result clears it.
C16_ResultFlagTransitions ==
    [][/\ (~isResult /\ isResult') => last'.ev = "settle"
       /\ (isResult /\ last'.ev \in Typed) => ~isResult']_vars

\* C16 witness: a settlement took the composer from Composing to ShowingResult.
C16_Witness == last.ev = "settle" /\ ~last.wasResult /\ isResult /\ display = Fourteen

\* C17 (as claimed): only a submit (its press or its settlement) leaves isResult
\* true when it was true.
C17_OnlySubmitKeepsResult ==
    [][(isResult /\ isResult') => last'.ev \in {"calculate", "settle"}]_vars

\* C17 (amended): only a submit or deleteLast leaves isResult true when it was
\* true; digit, operator, function and clear always leave ShowingResult.
C17_OnlySubmitOrDeleteKeepsResult ==
    [][/\ (isResult /\ isResult') => last'.ev \in {"calculate", "settle", "delete"}
       /\ (isResult /\ last'.ev = "delete") => isResult']_vars

\* C17 witness: deleteLast was applied to the result 14, which is still a result.
C17_Witness ==
    last.ev = "delete" /\ last.wasResult /\ isResult /\ display = <<"1">>

\* C18: a request leaves only with a submit event, one per submit; a settlement
\* of any outcome ends its request, sends no other and sets isResult.
C18_OneRequestPerSubmit ==
    [][/\ last'.ev = "calculate" => pending' = Append(pending, last'.sent)
       /\ last'.ev # "calculate" => Len(pending') <= Len(pending)
       /\ last'.ev = "settle" => (Len(pending') = Len(pending) - 1 /\ isResult')]_vars

\* C18 witness: a request failed in transport and none is outstanding after it.
C18_Witness ==
    last.ev = "settle" /\ last.arg = Unreachable /\ pending = <<>> /\ isResult

\* C19 as stated: without a result shown, a function appends name + "(" to
\* both display and expression, a display of "0" included.
C19_FunctionAppends ==
    [][(last'.ev = "function" /\ ~isResult) =>
           /\ display' = display \o last'.arg \o <<"(">>
           /\ expression' = expression \o last'.arg \o <<"(">>]_vars

\* C19 amended: the append holds for every display but "0"; on "0" the
\* commented component replaces both with name + "(", Calculator.js appends.
C19_FunctionAppendsOrReplacesZero ==
    [][(last'.ev = "function" /\ ~isResult) =>
           /\ ~isResult'
           /\ IF variant = Commented /\ display = Zero
              THEN /\ display' = last'.arg \o <<"(">>
                   /\ expression' = last'.arg \o <<"(">>
              ELSE /\ display' = display \o last'.arg \o <<"(">>
                   /\ expression' = expression \o last'.arg \o <<"(">>]_vars

\* C19 witness: sin pressed after 5 leaves the call open behind it.
C19_Witness ==
    /\ last.ev = "function" /\ ~last.wasResult
    /\ display = <<"5">> \o Sin \o <<"(">>
    /\ expression = display

\* C20 as stated: on a display of more than one character deleteLast removes
\* exactly the last character of display and exactly the last of expression.
C20_DeleteRemovesLastOfBoth ==
    [][(last'.ev = "delete" /\ Len(display) > 1) =>
           /\ display = display' \o <<display[Len(display)]>>
           /\ expression # Empty
           /\ expression = expression' \o <<expression[Len(expression)]>>]_vars

\* C20 amended: the last character of display goes, and the last character of
\* expression when it has one; an empty expression stays empty. No token is
\* removed whole.
C20_DeleteIsPositional ==
    [][(last'.ev = "delete" /\ Len(display) > 1) =>
           /\ display = display' \o <<display[Len(display)]>>
           /\ IF expression = Empty
              THEN expression' = Empty
              ELSE expression = expression' \o <<expression[Len(expression)]>>
           /\ isResult' = isResult]_vars

\* C20 witness: deleting from "sin(" took the parenthesis only.
C20_Witness ==
    last.ev = "delete" /\ display = Sin /\ expression = Sin

\* C21: a success response whose result is a non-numeric payload settles with
\* display equal to that payload, character for character, and isResult true.
C21_PayloadVerbatim ==
    (/\ last.ev = "settle"
     /\ last.arg.reached /\ last.arg.parses /\ last.arg.ok /\ ~last.arg.isNumber) =>
        (display = last.arg.text /\ isResult)

\* C21 witness: a payload made of display glyphs is on the display unchanged.
C21_Witness ==
    /\ last.ev = "settle" /\ last.arg = TextResult(<<"×", "÷", "π">>)
    /\ display = <<"×", "÷", "π">> /\ isResult

\* C22 as stated: of two responses that arrive one after the other, the first
\* wins: once both have arrived the display is still the first one's outcome.
C22_FirstResponseWins ==
    (last.ev = "settle" /\ last.over # <<>> /\ pending = <<>>) =>
        display = last.over[1]

\* C22 amended: every response overwrites the display as it arrives, so once
\* both have arrived the display is the outcome of the one that arrived last.
C22_LastResponseWins ==
    (last.ev = "settle" /\ last.over # <<>> /\ pending = <<>>) =>
        (display = SettledDisplay(last.arg) /\ isResult)

\* C22 witness: 14 arrived first, 0 arrived second and is what the display shows.
C22_Witness ==
    /\ last.ev = "settle" /\ last.over = <<Fourteen>> /\ pending = <<>>
    /\ last.arg = NumberResult(0) /\ display = <<"0">>

\* C23 as stated: without the pi button, an operator on the initial "0" or a
\* glyph in a payload, the two components hold the same display, expression and
\* isResult after every event, and have sent the same strings.
C23_VariantsAgree == twin.state = Now /\ twin.pending = pending

\* C23 amended: the components also part on a function applied to the initial
\* "0"; any other event takes them from equal states to equal states, and the
\* request each one sends is the same string.
C23_VariantsAgreeButFunctionOnZero ==
    [][(/\ twin.state = Now /\ twin.pending = pending
        /\ ~(last'.ev = "function" /\ OnZero)) =>
           (twin'.state = Now' /\ twin'.pending = pending')]_vars

\* C23 witness: both components wrapped the same result in the same call.
C23_Witness ==
    /\ last.ev = "function" /\ last.wasResult
    /\ display = Wrap(Sin, Fourteen) /\ twin.state = Now /\ twin.pending = pending

\* C24: if every request settles, each submit is followed by a settlement that
\* leaves isResult true, whatever is pressed while the request is outstanding.
C24_SubmitLeadsToResult ==
    (last.ev = "calculate") ~> (last.ev = "settle" /\ isResult)

\* C24 witness: "5" was sent, "+" was pressed while it was outstanding, and the
\* settlement set isResult.
C24_Witness ==
    /\ last.ev = "settle" /\ last.sent = <<"5">> /\ expression = <<"5", "+">>
    /\ isResult /\ pending = <<>>

\* C25 as stated: every submit sends the text on the display, glyphs
\* normalized (read on the commented component, which normalizes).
C25_SendsDisplay ==
    [][(last'.ev = "calculate" /\ variant = Commented) =>
           last'.sent = ReplaceGlyphs(display)]_vars

\* C25 amended: a submit sends expression when it is not empty and display
\* otherwise, glyphs normalized by the commented component only; with a result
\* shown that is the expression kept from before, as deleteLast left it.
C25_SendsExpressionElseDisplay ==
    [][last'.ev = "calculate" =>
           /\ pending' = Append(pending, last'.sent)
           /\ expression # Empty =>
                  last'.sent = IF variant = Commented THEN ReplaceGlyphs(expression)
                               ELSE expression
           /\ expression = Empty =>
                  last'.sent = IF variant = Commented THEN ReplaceGlyphs(display)
                               ELSE display]_vars

\* C25 witness: 5+5 gave 14, one deleteLast left display "1", and the second
\* submit sent "5+".
C25_Witness ==
    /\ last.ev = "calculate" /\ isResult
    /\ display = <<"1">> /\ last.sent = <<"5", "+">>

\* C26: the string of a request is fixed at the submit: no key pressed while it
\* is outstanding changes it, and its settlement overwrites display and sets
\* isResult but leaves expression as those keys made it.
C26_SentIsFixedAtSubmit ==
    [][/\ last'.ev \in Typed \cup {"delete", "clear"} => pending' = pending
       /\ last'.ev = "settle" =>
              /\ \E i \in DOMAIN pending :
                     last'.sent = pending[i] /\ pending' = Remove(pending, i)
              /\ display' = SettledDisplay(last'.arg)
              /\ expression' = expression
              /\ isResult']_vars

\* C26 witness: "5" was sent, "+" was pressed before 14 came back; the display
\* shows 14 and expression is still "5+".
C26_Witness ==
    /\ last.ev = "settle" /\ last.sent = <<"5">> /\ last.arg = NumberResult(14)
    /\ display = Fourteen /\ expression = <<"5", "+">> /\ isResult

\* C27: clear while a request is outstanding resets the state and leaves the
\* request outstanding; when it settles, display takes the outcome and
\* isResult becomes true, with expression still empty.
C27_ClearDoesNotCancel ==
    [][/\ last'.ev = "clear" => (pending' = pending /\ Now' = Fresh)
       /\ (last.ev = "clear" /\ last'.ev = "settle") =>
              /\ Now = Fresh
              /\ display' = SettledDisplay(last'.arg)
              /\ expression' = Empty
              /\ isResult']_vars

\* C27 witness: "5+" was sent, AC was pressed, and 14 came back onto the
\* cleared state.
C27_Witness ==
    /\ last.ev = "settle" /\ last.sent = <<"5", "+">>
    /\ Now = State(Fourteen, Empty, TRUE)

\* C28: deleteLast leaves isResult as it found it, when it removes a character
\* and when it resets the display to "0".
C28_DeleteKeepsFlag ==
    [][last'.ev = "delete" =>
           /\ isResult' = isResult
           /\ Len(display) > 1 => Len(display') = Len(display) - 1
           /\ Len(display) <= 1 => display' = Zero]_vars

\* C28 witness: one deleteLast on the shown "Error" left "Erro", still a result.
C28_Witness ==
    /\ last.ev = "delete" /\ last.wasResult /\ isResult
    /\ display = SliceLast(ErrorToken)

====
